---------------------------- MODULE Spec2Model ----------------------------
(***************************************************************************)
(* A model of api/shopify-webhook.js: the serverless handler that reads a  *)
(* Shopify order webhook, verifies its HMAC, maps the order to a GA4       *)
(* Measurement Protocol purchase event and forwards it.                    *)
(*                                                                         *)
(* Strings of the program are sequences of one-character strings, so that  *)
(* toLowerCase, parseFloat and String() are computed, not assumed.         *)
(* JavaScript values are records [t, n, s]: t the type tag, n the payload  *)
(* of a number or boolean, s the payload of a string (or the name of a     *)
(* non-finite number).                                                     *)
(***************************************************************************)
EXTENDS Integers, Sequences, FiniteSets, TLC

(* ------------------------------ bounds -------------------------------- *)
\* longest request body, in transport units
MaxBody == 2
\* longest note_attributes array
MaxAttrs == 2
\* longest line_items array
MaxItems == 1
\* length of the base64 text of a digest in the model
DigestLen == 3

(* --------------------------- JavaScript values ------------------------ *)
Undef == [t |-> "undefined", n |-> 0, s |-> <<>>]
Null == [t |-> "null", n |-> 0, s |-> <<>>]
Num(k) == [t |-> "number", n |-> k, s |-> <<>>]
NaN == [t |-> "number", n |-> 0, s |-> <<"N", "a", "N">>]
Infinity == [t |-> "number", n |-> 0, s |-> <<"I", "n", "f", "i", "n", "i", "t", "y">>]
Str(chars) == [t |-> "string", n |-> 0, s |-> chars]
False == [t |-> "boolean", n |-> 0, s |-> <<>>]
\* the completion of an expression that threw
Throw == [t |-> "throw", n |-> 0, s |-> <<>>]

IsNullish(v) == v.t \in {"undefined", "null"}
IsFinite(v) == v.t = "number" /\ v.s = <<>>

\* ToBoolean, as || and ?: apply it
Truthy(v) ==
  CASE v.t \in {"undefined", "null"} -> FALSE
    [] v.t = "number" -> IF v.s = <<>> THEN v.n # 0 ELSE v # NaN
    [] v.t = "string" -> v.s # <<>>
    [] v.t = "boolean" -> v.n = 1
    [] OTHER -> TRUE

\* a || b
OrElse(a, b) == IF Truthy(a) THEN a ELSE b

DigitChar == <<"0", "1", "2", "3", "4", "5", "6", "7", "8", "9">>
DigitVal == [c \in {DigitChar[i] : i \in 1..10} |-> CHOOSE d \in 0..9 : DigitChar[d + 1] = c]
IsDigit(c) == c \in DOMAIN DigitVal

RECURSIVE NatDigits(_)
NatDigits(k) ==
  IF k < 10 THEN <<DigitChar[k + 1]>>
  ELSE Append(NatDigits(k \div 10), DigitChar[(k % 10) + 1])

\* String(v)
String(v) ==
  CASE v.t = "undefined" -> Str(<<"u", "n", "d", "e", "f", "i", "n", "e", "d">>)
    [] v.t = "null" -> Str(<<"n", "u", "l", "l">>)
    [] v.t = "string" -> v
    [] v.t = "boolean" -> IF v.n = 1 THEN Str(<<"t", "r", "u", "e">>)
                          ELSE Str(<<"f", "a", "l", "s", "e">>)
    [] v.t = "number" ->
         IF v.s # <<>> THEN Str(v.s)
         ELSE IF v.n < 0 THEN Str(<<"-">> \o NatDigits(-v.n))
         ELSE Str(NatDigits(v.n))
    [] OTHER -> Str(<<"[", "o", "b", "j", "e", "c", "t", "]">>)

RECURSIVE ParseDigits(_, _, _)
ParseDigits(s, i, acc) ==
  IF i <= Len(s) /\ IsDigit(s[i]) THEN ParseDigits(s, i + 1, acc * 10 + DigitVal[s[i]])
  ELSE acc

RECURSIVE SkipSpace(_)
SkipSpace(s) == IF s # <<>> /\ Head(s) = " " THEN SkipSpace(Tail(s)) ELSE s

IsPrefix(p, s) == Len(p) <= Len(s) /\ SubSeq(s, 1, Len(p)) = p

\* parseFloat(v): the longest numeric prefix of String(v); the strings of the
\* model carry no "." and no exponent, so every finite result is an integer
ParseFloat(v) ==
  LET s0 == SkipSpace(String(v).s)
      neg == s0 # <<>> /\ Head(s0) = "-"
      s == IF s0 # <<>> /\ Head(s0) \in {"-", "+"} THEN Tail(s0) ELSE s0
  IN IF IsPrefix(Infinity.s, s) THEN Infinity
     ELSE IF s = <<>> \/ ~IsDigit(s[1]) THEN NaN
     ELSE Num((IF neg THEN -1 ELSE 1) * ParseDigits(s, 1, 0))

\* const toNumber = (v, fallback = 0) => ...
toNumber(v, fallback) ==
  LET n == ParseFloat(v)
  IN IF IsFinite(n) THEN n ELSE fallback

UpperChars == <<"A", "B", "C", "D", "E", "F", "G", "H", "I", "J", "K", "L", "M",
                "N", "O", "P", "Q", "R", "S", "T", "U", "V", "W", "X", "Y", "Z">>
LowerChars == <<"a", "b", "c", "d", "e", "f", "g", "h", "i", "j", "k", "l", "m",
                "n", "o", "p", "q", "r", "s", "t", "u", "v", "w", "x", "y", "z">>
LowerChar(c) ==
  IF \E i \in 1..26 : UpperChars[i] = c
  THEN LowerChars[CHOOSE i \in 1..26 : UpperChars[i] = c]
  ELSE c

\* String.prototype.toLowerCase
toLowerCase(s) == [i \in 1..Len(s) |-> LowerChar(s[i])]

(* ------------------------- objects of the order ------------------------ *)
Arr(elems) == [t |-> "array", elems |-> elems]
\* { shop_money: { amount } }
Money(a) == [t |-> "object", amount |-> a]
\* x?.shop_money?.amount
ShopMoneyAmount(x) == IF IsNullish(x) THEN Undef ELSE x.amount
\* order.customer?.id, order?.customer?.email
CustomerId(c) == IF IsNullish(c) THEN Undef ELSE c.id
CustomerEmail(c) == IF IsNullish(c) THEN Undef ELSE c.email

\* the keys the handler looks up in note_attributes
K_client_id == <<"c", "l", "i", "e", "n", "t", "_", "i", "d">>
K_ga_cid == <<"_", "g", "a", "_", "c", "i", "d">>
K_gclid == <<"g", "c", "l", "i", "d">>
K_gbraid == <<"g", "b", "r", "a", "i", "d">>
K_wbraid == <<"w", "b", "r", "a", "i", "d">>
K_utm_source == <<"u", "t", "m", "_", "s", "o", "u", "r", "c", "e">>
K_utm_medium == <<"u", "t", "m", "_", "m", "e", "d", "i", "u", "m">>
K_utm_campaign == <<"u", "t", "m", "_", "c", "a", "m", "p", "a", "i", "g", "n">>
K_utm_content == <<"u", "t", "m", "_", "c", "o", "n", "t", "e", "n", "t">>
K_utm_term == <<"u", "t", "m", "_", "t", "e", "r", "m">>
\* the attribution keys, in the order the handler reads and spreads them
AttributionKeys == <<"gclid", "gbraid", "wbraid", "utm_source", "utm_medium",
                     "utm_campaign", "utm_content", "utm_term">>
KeyChars(k) ==
  CASE k = "client_id" -> K_client_id
    [] k = "_ga_cid" -> K_ga_cid
    [] k = "gclid" -> K_gclid
    [] k = "gbraid" -> K_gbraid
    [] k = "wbraid" -> K_wbraid
    [] k = "utm_source" -> K_utm_source
    [] k = "utm_medium" -> K_utm_medium
    [] k = "utm_campaign" -> K_utm_campaign
    [] k = "utm_content" -> K_utm_content
    [] k = "utm_term" -> K_utm_term

\* a.name?.toLowerCase() === key.toLowerCase(): "throw" when a is null or a.name
\* is neither nullish nor a string (toLowerCase is then not a function)
AttrMatches_caseSensitive(a, keyChars) ==
  IF a.t = "null" THEN "throw"
  ELSE IF IsNullish(a.name) THEN "no"
  ELSE IF a.name.t # "string" THEN "throw"
  ELSE IF a.name.s = keyChars THEN "yes" ELSE "no"

AttrMatches(a, keyChars) ==
  IF a.t = "null" THEN "throw"
  ELSE IF IsNullish(a.name) THEN "no"
  ELSE IF a.name.t # "string" THEN "throw"
  ELSE IF toLowerCase(a.name.s) = toLowerCase(keyChars) THEN "yes" ELSE "no"

\* attributes.find(...): the index of the first match, 0 when there is none,
\* -1 when the callback throws before a match
RECURSIVE FindAttr(_, _, _)
FindAttr(elems, i, keyChars) ==
  IF i > Len(elems) THEN 0
  ELSE LET m == AttrMatches(elems[i], keyChars)
       IN IF m = "throw" THEN -1
          ELSE IF m = "yes" THEN i
          ELSE FindAttr(elems, i + 1, keyChars)

\* const attributes = order?.note_attributes || []
Attributes(order) ==
  IF IsNullish(order) THEN Arr(<<>>) ELSE OrElse(order.note_attributes, Arr(<<>>))

\* const getAttr = (key) => attributes.find(...)?.value
getAttr(attributes, keyChars) ==
  IF attributes.t # "array" THEN Throw
  ELSE LET i == FindAttr(attributes.elems, 1, keyChars)
       IN IF i = -1 THEN Throw
          ELSE IF i = 0 THEN Undef
          ELSE attributes.elems[i].value

clientId_customerFirst(order) ==
  IF IsNullish(order) THEN Throw
  ELSE IF Truthy(CustomerId(order.customer)) THEN String(CustomerId(order.customer))
  ELSE LET a == getAttr(Attributes(order), K_client_id)
       IN IF a = Throw THEN Throw ELSE IF Truthy(a) THEN a ELSE String(order.id)

\* const clientId = getAttr("client_id") || getAttr("_ga_cid") || (...)
clientId(order) ==
  LET a == getAttr(Attributes(order), K_client_id)
  IN IF a = Throw THEN Throw
     ELSE IF Truthy(a) THEN a
     ELSE LET b == getAttr(Attributes(order), K_ga_cid)
          IN IF b = Throw THEN Throw
             ELSE IF Truthy(b) THEN b
             ELSE IF IsNullish(order) THEN Throw
             ELSE IF Truthy(CustomerId(order.customer))
                  THEN String(CustomerId(order.customer))
                  ELSE String(order.id)

\* const userId = order?.customer?.email || null
userId(order) ==
  IF IsNullish(order) THEN Null ELSE OrElse(CustomerEmail(order.customer), Null)

\* const gclid = getAttr("gclid") || null, and the seven like it
Attribution(order, k) ==
  LET v == getAttr(Attributes(order), KeyChars(k))
  IN IF v = Throw THEN Throw ELSE OrElse(v, Null)

EmptyObj == [k \in {} |-> Undef]

\* ...(v ? { k: v } : {})
Spread(v, k) == IF Truthy(v) THEN k :> v ELSE EmptyObj

\* order?.line_items?.vendor: line_items is an array, and an array has no
\* property named vendor
LineItemsVendor(lineItems) == Undef

\* one element of (order.line_items || []).map(...)
Item(lineItems, item) ==
  IF item.t = "null" THEN Throw
  ELSE ("item_id" :> String(OrElse(item.product_id,
                             OrElse(item.sku, OrElse(item.variant_id, item.id)))))
    @@ ("item_name" :> OrElse(item.title, item.name))
    @@ ("quantity" :> OrElse(item.quantity, Num(1)))
    @@ ("price" :> toNumber(OrElse(item.price,
                              OrElse(ShopMoneyAmount(item.price_set), Num(0))), Num(0)))
    @@ ("item_brand" :> OrElse(LineItemsVendor(lineItems), Undef))
    @@ ("item_variant" :> OrElse(item.variant_title, Undef))

\* const items = (order.line_items || []).map(...) || []
Items(order) ==
  LET src == OrElse(order.line_items, Arr(<<>>))
  IN IF src.t # "array" THEN Throw
     ELSE IF \E i \in 1..Len(src.elems) : src.elems[i].t = "null" THEN Throw
     ELSE Arr([i \in 1..Len(src.elems) |-> Item(src, src.elems[i])])

\* order.discount_codes?.[0]?.code || undefined
Coupon(order) ==
  LET d == order.discount_codes
  IN IF IsNullish(d) \/ d.elems = <<>> \/ IsNullish(d.elems[1]) THEN Undef
     ELSE OrElse(d.elems[1].code, Undef)

RECURSIVE SpreadAll(_, _)
SpreadAll(order, i) ==
  IF i > Len(AttributionKeys) THEN EmptyObj
  ELSE Spread(Attribution(order, AttributionKeys[i]), AttributionKeys[i])
       @@ SpreadAll(order, i + 1)

\* events[0].params
Params(order) ==
  ("transaction_id" :> String(order.id))
  @@ ("value" :> toNumber(OrElse(order.total_price,
                            OrElse(order.current_total_price,
                                   ShopMoneyAmount(order.total_price_set))), Num(0)))
  @@ ("currency" :> OrElse(order.currency,
                           OrElse(order.presentment_currency, Str(<<"I", "N", "R">>))))
  @@ ("tax" :> toNumber(OrElse(order.total_tax, Num(0)), Num(0)))
  @@ ("shipping" :> toNumber(OrElse(ShopMoneyAmount(order.total_shipping_price_set),
                                    Num(0)), Num(0)))
  @@ ("coupon" :> Coupon(order))
  @@ SpreadAll(order, 1)

\* the statements from `const attributes` to `const ga4Event`: the event, or
\* Throw when one of them throws
BuildEvent(order) ==
  IF clientId(order) = Throw THEN Throw
  ELSE IF \E i \in 1..Len(AttributionKeys) :
            Attribution(order, AttributionKeys[i]) = Throw THEN Throw
  ELSE IF Items(order) = Throw THEN Throw
  ELSE [t |-> "object",
        fields |-> ("client_id" :> String(clientId(order)))
                   @@ Spread(userId(order), "user_id")
                   @@ ("non_personalized_ads" :> False),
        name |-> "purchase",
        params |-> Params(order),
        items |-> Items(order).elems]

\* JSON.stringify of an object: a key whose value is undefined is left out
StringifyObj(o) == [k \in {x \in DOMAIN o : o[x].t # "undefined"} |-> o[k]]

\* JSON.stringify(ga4Event)
Stringify(ev) ==
  [fields |-> StringifyObj(ev.fields),
   name |-> ev.name,
   params |-> StringifyObj(ev.params),
   items |-> [i \in 1..Len(ev.items) |-> StringifyObj(ev.items[i])]]

(* ------------------------- request body and HMAC ----------------------- *)
\* Transport units of a request body: the two bytes of a two-byte UTF-8
\* character, and runs of ASCII bytes (a run decodes to itself however the
\* transport cuts it, so a run is one unit): a run that is no JSON, and three
\* runs that are each a whole JSON document.
Units == {"C3", "A9", "x", "null", "{order}", "{note_attributes:[null]}"}

\* chunk.toString(), which `data += chunk` applies to each Buffer on its own:
\* a lead byte the chunk does not complete, or a continuation byte without its
\* lead byte, decodes to U+FFFD
RECURSIVE Utf8Decode(_)
Utf8Decode(bytes) ==
  IF bytes = <<>> THEN <<>>
  ELSE IF Head(bytes) = "C3" /\ Len(bytes) >= 2 /\ bytes[2] = "A9"
       THEN <<"U+00E9">> \o Utf8Decode(Tail(Tail(bytes)))
  ELSE IF Head(bytes) \in {"C3", "A9"} THEN <<"U+FFFD">> \o Utf8Decode(Tail(bytes))
  ELSE <<Head(bytes)>> \o Utf8Decode(Tail(bytes))

\* the bytes of a string: Buffer.from(s), and .update(s, "utf8")
RECURSIVE Utf8Encode(_)
Utf8Encode(chars) ==
  IF chars = <<>> THEN <<>>
  ELSE (CASE Head(chars) = "U+00E9" -> <<"C3", "A9">>
          [] Head(chars) = "U+FFFD" -> <<"EF", "BF", "BD">>
          [] OTHER -> <<Head(chars)>>) \o Utf8Encode(Tail(chars))

RECURSIVE Concat(_)
Concat(chunks) == IF chunks = <<>> THEN <<>> ELSE Head(chunks) \o Concat(Tail(chunks))

UnitCode(b) ==
  CASE b = "C3" -> 3 [] b = "A9" -> 5 [] b = "EF" -> 7 [] b = "BF" -> 11
    [] b = "BD" -> 13 [] b = "x" -> 17 [] b = "null" -> 19 [] b = "{order}" -> 23
    [] b = "|" -> 29 [] OTHER -> 2

RECURSIVE Pow(_, _)
Pow(b, e) == IF e = 0 THEN 1 ELSE b * Pow(b, e - 1)

RECURSIVE HashFrom(_, _)
HashFrom(h, bytes) ==
  IF bytes = <<>> THEN h
  ELSE HashFrom((h * 31 + UnitCode(Head(bytes))) % Pow(4, DigestLen), Tail(bytes))

Base64Chars == <<"A", "B", "C", "D">>

\* crypto.createHmac("sha256", key).update(bytes).digest("base64"): a keyed
\* function of the bytes whose text has one fixed length
HmacBase64(key, bytes) ==
  LET h == HashFrom(1, key \o <<"|">> \o bytes)
  IN [i \in 1..DigestLen |-> Base64Chars[((h \div Pow(4, i - 1)) % 4) + 1]]

\* crypto.timingSafeEqual(a, b): throws when the byte lengths differ
timingSafeEqual(a, b) ==
  IF Len(a) # Len(b) THEN "throw" ELSE IF a = b THEN "true" ELSE "false"

verifyShopifyHmac_noBypass(secret, hmacHeader, rawBody) ==
  IF ~Truthy(hmacHeader) THEN "false"
  ELSE timingSafeEqual(Utf8Encode(hmacHeader.s),
                       Utf8Encode(HmacBase64(secret.s, Utf8Encode(rawBody))))

verifyShopifyHmac_headerOptional(secret, hmacHeader, rawBody) ==
  IF ~Truthy(secret) THEN "true"
  ELSE IF ~Truthy(hmacHeader) THEN "true"
  ELSE timingSafeEqual(Utf8Encode(hmacHeader.s),
                       Utf8Encode(HmacBase64(secret.s, Utf8Encode(rawBody))))

\* function verifyShopifyHmac(req, rawBody)
verifyShopifyHmac(secret, hmacHeader, rawBody) ==
  IF ~Truthy(secret) THEN "true"
  ELSE IF ~Truthy(hmacHeader) THEN "false"
  ELSE timingSafeEqual(Utf8Encode(hmacHeader.s),
                       Utf8Encode(HmacBase64(secret.s, Utf8Encode(rawBody))))

(* ------------------------------ documents ------------------------------ *)
Chars(text) ==
  CASE text = "abc" -> <<"a", "b", "c">>
    [] text = "xyz" -> <<"x", "y", "z">>
    [] text = "a@b.com" -> <<"a", "@", "b", ".", "c", "o", "m">>
    [] text = "USD" -> <<"U", "S", "D">>
    [] text = "Widget" -> <<"W", "i", "d", "g", "e", "t">>
    [] text = "199" -> <<"1", "9", "9">>
    [] text = "50" -> <<"5", "0">>
    [] text = "12abc" -> <<"1", "2", "a", "b", "c">>
    [] text = "-3" -> <<"-", "3">>
    [] text = "Infinity" -> Infinity.s
    [] text = "SAVE10" -> <<"S", "A", "V", "E", "1", "0">>
    [] text = "foo" -> <<"f", "o", "o">>
    [] text = "UTM_Source" -> <<"U", "T", "M", "_", "S", "o", "u", "r", "c", "e">>
    [] text = "" -> <<>>

Attr(name, value) == [t |-> "object", name |-> name, value |-> value]
Customer(id, email) == [t |-> "object", id |-> id, email |-> email]

\* an order with an id and nothing else
BareOrder ==
  [t |-> "object", id |-> Num(1001), customer |-> Undef, note_attributes |-> Undef,
   line_items |-> Undef, total_price |-> Undef, current_total_price |-> Undef,
   total_price_set |-> Undef, currency |-> Undef, presentment_currency |-> Undef,
   total_tax |-> Undef, total_shipping_price_set |-> Undef, discount_codes |-> Undef]

BareItem ==
  [t |-> "object", product_id |-> Num(9), sku |-> Undef, variant_id |-> Undef,
   id |-> Undef, title |-> Str(Chars("Widget")), name |-> Undef, quantity |-> Undef,
   price |-> Undef, price_set |-> Undef, variant_title |-> Undef]

\* the order of the document "{order}"
SampleOrder ==
  [BareOrder EXCEPT
     !.customer = Customer(Num(77), Str(Chars("a@b.com"))),
     !.total_price = Str(Chars("199")),
     !.currency = Str(Chars("USD")),
     !.line_items = Arr(<<[BareItem EXCEPT !.quantity = Num(2),
                                           !.price = Str(Chars("50"))]>>),
     !.note_attributes = Arr(<<Attr(Str(K_gclid), Str(Chars("abc")))>>)]

\* JSON.parse(rawBody): the value of a text that is one whole document, a
\* SyntaxError for any other text
JSON_parse(rawBody) ==
  IF rawBody = <<"null">> THEN Null
  ELSE IF rawBody = <<"{order}">> THEN SampleOrder
  ELSE IF rawBody = <<"{note_attributes:[null]}">>
  THEN [BareOrder EXCEPT !.note_attributes = Arr(<<Null>>)]
  ELSE Throw

(* ----------------------------- configuration --------------------------- *)
UrlHost == "https://www.google-analytics.com"
\* the URLs, as the segments the template literals join; the measurement id
\* and the API secret hold no "/"
GA4_ENDPOINT == <<UrlHost, "/mp/collect", "?measurement_id=", "G-TEST", "&api_secret=", "k3y">>
GA4_DEBUG == <<UrlHost, "/debug/", "mp/collect", "?measurement_id=", "G-TEST", "&api_secret=", "k3y">>

\* endpoint.includes("/debug/")
IncludesDebug(endpoint) == \E i \in 1..Len(endpoint) : endpoint[i] = "/debug/"

Endpoint_anyTruthyFlag(debugMode) == IF Truthy(debugMode) THEN GA4_DEBUG ELSE GA4_ENDPOINT

\* process.env.GA4_DEBUG_MODE === "1" ? GA4_DEBUG : GA4_ENDPOINT
Endpoint(debugMode) == IF debugMode = Str(<<"1">>) THEN GA4_DEBUG ELSE GA4_ENDPOINT

SentTo(endpoint) == IF IncludesDebug(endpoint) THEN "GA4 DEBUG" ELSE "GA4"

(* ------------------------------- state --------------------------------- *)
VARIABLES
  env,        \* process.env: SHOPIFY_WEBHOOK_SECRET and GA4_DEBUG_MODE
  pc,         \* where the handler is
  req,        \* the request: method and x-shopify-hmac-sha256 header
  sent,       \* the bytes of the body as the sender wrote them
  wire,       \* the chunks the stream has still to deliver
  stream,     \* "none", "open", "ended" or "failed" (an error or an abort)
  data,       \* `data` of the body-reading promise
  rawBody,    \* the value the promise resolved with
  verdict,    \* what verifyShopifyHmac did: "none", "true", "false", "throw"
  hmacInput,  \* the bytes the digest was computed over, once it was
  order,      \* JSON.parse(rawBody)
  ga4Event,   \* the event built from the order
  outbound,   \* the calls of fetch, in order
  gaRes,      \* the collector's response, once fetch resolved
  caught,     \* the statement whose exception the catch block received
  res         \* the responses sent to the caller, in order

vars == <<env, pc, req, sent, wire, stream, data, rawBody, verdict, hmacInput,
          order, ga4Event, outbound, gaRes, caught, res>>

\* const SHOPIFY_WEBHOOK_SECRET = process.env.SHOPIFY_WEBHOOK_SECRET || ""
SHOPIFY_WEBHOOK_SECRET == OrElse(env.SHOPIFY_WEBHOOK_SECRET, Str(<<>>))

Secrets == {Undef, Str(<<>>), Str(<<"s", "h", "h">>)}
DebugModes == {Undef, Str(<<"1">>), Str(<<"0">>)}
Methods == {"POST", "GET"}
\* what the collector may answer: any status, any text
CollectorResponses == [status : {204, 500}, text : {"", "{validationMessages}"}]

\* the bodies a sender writes: UTF-8 text of at most MaxBody units
Bodies ==
  {b \in UNION {[1..n -> Units] : n \in 0..MaxBody} : Utf8Encode(Utf8Decode(b)) = b}

\* the ways the transport may cut a body into non-empty chunks
RECURSIVE Chunkings(_)
Chunkings(body) ==
  IF body = <<>> THEN {<<>>}
  ELSE UNION {{<<SubSeq(body, 1, k)>> \o rest :
                 rest \in Chunkings(SubSeq(body, k + 1, Len(body)))} :
              k \in 1..Len(body)}

\* header values: none, empty, the digest of the body, and wrong values: of the
\* digest's length, a proper prefix of the digest, and the digest with a tail
Headers(secret, body) ==
  LET good == HmacBase64(secret.s, body)
  IN {Undef, Str(<<>>), Str(good),
      Str([good EXCEPT ![DigestLen] = "z"]),
      Str(SubSeq(good, 1, DigestLen - 1)),
      Str(good \o <<"=">>)}

MethodNotAllowed == [status |-> 405, body |-> [error |-> "Method not allowed"]]
InvalidHmac == [status |-> 401, body |-> [error |-> "Invalid HMAC signature"]]
\* res.status(500).json({ error: "Internal error" })
InternalError == [status |-> 500, body |-> [error |-> "Internal error"]]
Ok(endpoint, text) ==
  [status |-> 200,
   body |-> [status |-> "ok", sent_to |-> SentTo(endpoint), ga_response |-> text]]

Init ==
  /\ env \in [SHOPIFY_WEBHOOK_SECRET : Secrets, GA4_DEBUG_MODE : DebugModes]
  /\ pc = "idle"
  /\ req = [method |-> "none", hmacHeader |-> Undef]
  /\ sent = <<>>
  /\ wire = <<>>
  /\ stream = "none"
  /\ data = <<>>
  /\ rawBody = <<>>
  /\ verdict = "none"
  /\ hmacInput = [computed |-> FALSE, bytes |-> <<>>]
  /\ order = Undef
  /\ ga4Event = Undef
  /\ outbound = <<>>
  /\ gaRes = Undef
  /\ caught = "none"
  /\ res = <<>>

\* catch (e) { ...; return res.status(500).json({ error: "Internal error" }) }
Catch_leaksDetail(where) ==
  /\ caught' = where
  /\ res' = Append(res, [status |-> 500, body |-> [error |-> where]])
  /\ pc' = "done"

Catch(where) ==
  /\ caught' = where
  /\ res' = Append(res, InternalError)
  /\ pc' = "done"

(* ------------------------------ the handler ---------------------------- *)
\* the runtime calls handler(req, res): the method check, and for a POST the
\* promise that listens for "data" and "end"
Invoke(method, hmacHeader, chunks) ==
  /\ pc = "idle"
  /\ req' = [method |-> method, hmacHeader |-> hmacHeader]
  /\ sent' = Concat(chunks)
  /\ IF method # "POST"
     THEN /\ res' = Append(res, MethodNotAllowed)
          /\ pc' = "done"
          /\ UNCHANGED <<wire, stream>>
     ELSE /\ pc' = "awaitBody"
          /\ wire' = chunks
          /\ stream' = "open"
          /\ UNCHANGED res
  /\ UNCHANGED <<env, data, rawBody, verdict, hmacInput, order, ga4Event, outbound,
                 gaRes, caught>>

\* req.on("data", (chunk) => (data += chunk))
OnData ==
  /\ pc = "awaitBody" /\ stream = "open" /\ wire # <<>>
  /\ data' = data \o Utf8Decode(Head(wire))
  /\ wire' = Tail(wire)
  /\ UNCHANGED <<env, pc, req, sent, stream, rawBody, verdict, hmacInput, order,
                 ga4Event, outbound, gaRes, caught, res>>

\* req.on("end", () => resolve(data))
OnEnd ==
  /\ pc = "awaitBody" /\ stream = "open" /\ wire = <<>>
  /\ stream' = "ended"
  /\ rawBody' = data
  /\ pc' = "verify"
  /\ UNCHANGED <<env, req, sent, wire, data, verdict, hmacInput, order, ga4Event,
                 outbound, gaRes, caught, res>>

\* the request stream errors or is aborted before "end": the promise listens
\* for neither, and never settles
OnAbort ==
  /\ pc = "awaitBody" /\ stream = "open"
  /\ stream' = "failed"
  /\ UNCHANGED <<env, pc, req, sent, wire, data, rawBody, verdict, hmacInput, order,
                 ga4Event, outbound, gaRes, caught, res>>

\* if (!verifyShopifyHmac(req, rawBody)) return res.status(401).json(...)
Verify ==
  /\ pc = "verify"
  /\ verdict' = verifyShopifyHmac(SHOPIFY_WEBHOOK_SECRET, req.hmacHeader, rawBody)
  /\ hmacInput' = IF Truthy(SHOPIFY_WEBHOOK_SECRET) /\ Truthy(req.hmacHeader)
                  THEN [computed |-> TRUE, bytes |-> Utf8Encode(rawBody)]
                  ELSE hmacInput
  /\ CASE verdict' = "true" -> pc' = "parse" /\ UNCHANGED <<caught, res>>
       [] verdict' = "false" ->
            pc' = "done" /\ res' = Append(res, InvalidHmac) /\ UNCHANGED caught
       [] verdict' = "throw" -> Catch("verifyShopifyHmac")
  /\ UNCHANGED <<env, req, sent, wire, stream, data, rawBody, order, ga4Event,
                 outbound, gaRes>>

\* const order = JSON.parse(rawBody)
Parse ==
  /\ pc = "parse"
  /\ order' = JSON_parse(rawBody)
  /\ IF order' = Throw THEN Catch("JSON.parse")
     ELSE pc' = "map" /\ UNCHANGED <<caught, res>>
  /\ UNCHANGED <<env, req, sent, wire, stream, data, rawBody, verdict, hmacInput,
                 ga4Event, outbound, gaRes>>

\* from `const attributes` to `const ga4Event`
MapOrder ==
  /\ pc = "map"
  /\ ga4Event' = BuildEvent(order)
  /\ IF ga4Event' = Throw THEN Catch("mapping")
     ELSE pc' = "fetch" /\ UNCHANGED <<caught, res>>
  /\ UNCHANGED <<env, req, sent, wire, stream, data, rawBody, verdict, hmacInput,
                 order, outbound, gaRes>>

\* const gaRes = await fetch(endpoint, { method: "POST", ..., body })
Fetch ==
  /\ pc = "fetch"
  /\ outbound' = Append(outbound, [url |-> Endpoint(env.GA4_DEBUG_MODE),
                                   method |-> "POST",
                                   body |-> Stringify(ga4Event)])
  /\ pc' = "awaitFetch"
  /\ UNCHANGED <<env, req, sent, wire, stream, data, rawBody, verdict, hmacInput,
                 order, ga4Event, gaRes, caught, res>>

\* fetch resolves: the collector answered, with any status
FetchResolves(r) ==
  /\ pc = "awaitFetch"
  /\ gaRes' = r
  /\ pc' = "awaitText"
  /\ UNCHANGED <<env, req, sent, wire, stream, data, rawBody, verdict, hmacInput,
                 order, ga4Event, outbound, caught, res>>

\* fetch rejects: the call failed in transport
FetchRejects ==
  /\ pc = "awaitFetch"
  /\ Catch("fetch")
  /\ UNCHANGED <<env, req, sent, wire, stream, data, rawBody, verdict, hmacInput,
                 order, ga4Event, outbound, gaRes>>

\* const text = await gaRes.text(); return res.status(200).json(...)
TextResolves ==
  /\ pc = "awaitText"
  /\ res' = Append(res, Ok(outbound[Len(outbound)].url, gaRes.text))
  /\ pc' = "done"
  /\ UNCHANGED <<env, req, sent, wire, stream, data, rawBody, verdict, hmacInput,
                 order, ga4Event, outbound, gaRes, caught>>

\* gaRes.text() rejects: reading the response body failed
TextRejects ==
  /\ pc = "awaitText"
  /\ Catch("gaRes.text")
  /\ UNCHANGED <<env, req, sent, wire, stream, data, rawBody, verdict, hmacInput,
                 order, ga4Event, outbound, gaRes>>

Arrives ==
  /\ pc = "idle"
  /\ \E method \in Methods, body \in Bodies :
       \E chunks \in Chunkings(body), h \in Headers(SHOPIFY_WEBHOOK_SECRET, body) :
         Invoke(method, h, chunks)

Answers ==
  /\ pc = "awaitFetch"
  /\ \E r \in CollectorResponses : FetchResolves(r)

Next ==
  \/ Arrives
  \/ OnData
  \/ OnEnd
  \/ OnAbort
  \/ Verify
  \/ Parse
  \/ MapOrder
  \/ Fetch
  \/ Answers
  \/ FetchRejects
  \/ TextResolves
  \/ TextRejects

Spec == Init /\ [][Next]_vars

\* the scheduling of the runtime: a stream that has not failed delivers its
\* chunks and its end, a started step of the handler runs, and an outbound
\* call settles one way or the other, as does the read of its response
FairSpec ==
  /\ Spec
  /\ WF_vars(OnData) /\ WF_vars(OnEnd)
  /\ WF_vars(Verify) /\ WF_vars(Parse) /\ WF_vars(MapOrder) /\ WF_vars(Fetch)
  /\ WF_vars(Answers \/ FetchRejects)
  /\ WF_vars(TextResolves \/ TextRejects)

(* --------------------- the mapping on its own inputs ------------------- *)
AttrNames == {Str(K_client_id), Str(K_ga_cid), Str(K_utm_source),
              Str(Chars("UTM_Source")), Str(Chars("foo")), Undef}
AttrValues == {Str(Chars("abc")), Str(Chars("xyz")), Str(<<>>)}
AttrElems == {Attr(nm, v) : nm \in AttrNames, v \in AttrValues} \cup {Null}
AttrArrays == {Arr(e) : e \in UNION {[1..n -> AttrElems] : n \in 0..MaxAttrs}}
Customers == {Undef, Customer(Num(77), Str(Chars("a@b.com"))), Customer(Undef, Undef)}

\* orders that differ in tracking attributes and customer
AttrOrders ==
  {[BareOrder EXCEPT !.note_attributes = a, !.customer = c] :
     a \in AttrArrays \cup {Undef}, c \in Customers}

Amounts == {Undef, Null, Str(Chars("199")), Str(Chars("abc")), Str(Chars("12abc")),
            Str(Chars("Infinity")), Num(7)}

\* orders that differ in totals, currency and coupon
TotalOrders ==
  {[BareOrder EXCEPT !.total_price = tp, !.current_total_price = ctp,
                     !.total_price_set = tps, !.total_tax = tax,
                     !.total_shipping_price_set = ship, !.currency = cur,
                     !.discount_codes = dc] :
     tp \in Amounts,
     ctp \in {Undef, Str(Chars("50"))},
     tps \in {Undef, Money(Str(Chars("50")))},
     tax \in {Undef, Str(Chars("abc")), Str(Chars("-3"))},
     ship \in {Undef, Money(Str(Chars("abc"))), Money(Str(Chars("50")))},
     cur \in {Undef, Str(Chars("USD"))},
     dc \in {Undef, Arr(<<>>), Arr(<<[t |-> "object", code |-> Str(Chars("SAVE10"))]>>)}}

Quantities == {Undef, Null, Num(0), Num(2), Str(<<>>), Str(Chars("abc")),
               Str(Chars("50"))}
LineItems ==
  {[BareItem EXCEPT !.quantity = q, !.price = pr, !.price_set = ps, !.product_id = pid,
                    !.sku = Str(Chars("abc"))] :
     q \in Quantities,
     pr \in {Undef, Str(Chars("50")), Str(Chars("abc")), Num(7)},
     ps \in {Undef, Money(Str(Chars("50")))},
     pid \in {Undef, Num(9)}} \cup {Null}

\* orders that differ in line items
ItemOrders ==
  {[BareOrder EXCEPT !.line_items = li] :
     li \in {Arr(e) : e \in UNION {[1..n -> LineItems] : n \in 0..MaxItems}} \cup {Undef}}

Orders == AttrOrders \cup TotalOrders \cup ItemOrders

\* the handler after JSON.parse returned an order, no secret configured
MapInit ==
  /\ env = [SHOPIFY_WEBHOOK_SECRET |-> Undef, GA4_DEBUG_MODE |-> Undef]
  /\ pc = "map"
  /\ req = [method |-> "POST", hmacHeader |-> Undef]
  /\ sent = <<>>
  /\ wire = <<>>
  /\ stream = "ended"
  /\ data = <<>>
  /\ rawBody = <<>>
  /\ verdict = "true"
  /\ hmacInput = [computed |-> FALSE, bytes |-> <<>>]
  /\ order \in Orders
  /\ ga4Event = Undef
  /\ outbound = <<>>
  /\ gaRes = Undef
  /\ caught = "none"
  /\ res = <<>>

MapNext ==
  \/ MapOrder
  \/ Fetch

MapSpec == MapInit /\ [][MapNext]_vars

(* ------------------------------ properties ----------------------------- *)
SecretSet == Truthy(SHOPIFY_WEBHOOK_SECRET)
\* base64(HMAC-SHA256(secret, raw body)) of the request as the sender wrote it
SignatureOfSent == HmacBase64(SHOPIFY_WEBHOOK_SECRET.s, sent)
WrongHeader ==
  /\ req.method = "POST" /\ SecretSet
  /\ req.hmacHeader.t = "string" /\ req.hmacHeader.s # SignatureOfSent

\* C1: with the secret configured, a POST whose signature header is not the
\* base64 HMAC of the raw body is answered 401 "Invalid HMAC signature", never
\* passes verification and causes no outbound call, whatever the wrong value's
\* length.
C1_WrongSignatureIs401 ==
  WrongHeader =>
    /\ outbound = <<>>
    /\ verdict \in {"none", "false"}
    /\ pc = "done" => res = <<[status |-> 401,
                               body |-> [error |-> "Invalid HMAC signature"]]>>

\* C2: every invocation is eventually answered, and never answered twice.
C2_AlwaysAnswersOnce ==
  /\ [](pc # "idle" => <>(Len(res) = 1))
  /\ [](Len(res) <= 1)

\* C3: an outbound call is made only for a POST that verification accepted; a
\* POST without the signature header, the secret being configured, gets 401
\* and no outbound call, and a request that is no POST gets 405 and none.
C3_OutboundOnlyWhenAuthentic ==
  /\ outbound # <<>> => req.method = "POST" /\ verdict = "true"
  /\ (SecretSet /\ req.method = "POST" /\ req.hmacHeader = Undef) =>
       /\ outbound = <<>>
       /\ verdict \in {"none", "false"}
       /\ pc \in {"awaitBody", "verify", "done"}
       /\ pc = "done" => res = <<[status |-> 401,
                                  body |-> [error |-> "Invalid HMAC signature"]]>>
  /\ req.method \notin {"POST", "none"} =>
       /\ outbound = <<>>
       /\ pc = "done"
       /\ res = <<[status |-> 405, body |-> [error |-> "Method not allowed"]]>>

C3_Witness ==
  /\ SecretSet /\ req.method = "POST" /\ req.hmacHeader = Undef
  /\ pc = "done" /\ Len(res) = 1 /\ res[1].status = 401 /\ outbound = <<>>

\* the order of the steps alone: verification after the stream's end, parsing
\* after an authentic verdict, the outbound call after a parsed and mapped
\* order, the 200 reply after the collector's response
StepsInOrder ==
  /\ verdict # "none" => stream = "ended" /\ wire = <<>> /\ rawBody = data
  /\ order # Undef => verdict = "true"
  /\ outbound # <<>> => order \notin {Undef, Throw} /\ ga4Event \notin {Undef, Throw}
  /\ (\E i \in 1..Len(res) : res[i].status = 200) => gaRes # Undef /\ outbound # <<>>

\* C4: body-read, verification, parsing, forwarding and reply happen in that
\* order, and the digest is computed over the untouched raw body.
C4_OrderedOverRawBody ==
  /\ StepsInOrder
  /\ hmacInput.computed => hmacInput.bytes = sent

\* C5: with the secret unset or empty, verification accepts every request
\* (header absent, empty, right or wrong) and no response is a 401.
C5_NoSecretNo401 ==
  ~SecretSet =>
    /\ verdict \in {"none", "true"}
    /\ \A i \in 1..Len(res) : res[i].status # 401

C5_Witness ==
  /\ ~SecretSet /\ req.method = "POST"
  /\ req.hmacHeader.t = "string" /\ req.hmacHeader.s # SignatureOfSent
  /\ verdict = "true" /\ pc = "done"

\* C6: a body that does not parse, an outbound call that fails and an
\* exception while mapping are each answered with 500 and exactly
\* {"error": "Internal error"}; no 500 carries anything else; a body that does
\* not parse causes no outbound call.
C6_FailuresAre500 ==
  /\ \A i \in 1..Len(res) :
       res[i].status = 500 => res[i].body = [error |-> "Internal error"]
  /\ caught # "none" =>
       /\ pc = "done"
       /\ res = <<[status |-> 500, body |-> [error |-> "Internal error"]]>>
  /\ order = Throw => caught = "JSON.parse" /\ outbound = <<>>
  /\ ga4Event = Throw => caught = "mapping" /\ outbound = <<>>
  /\ (pc = "done" /\ outbound # <<>> /\ gaRes = Undef) => caught = "fetch"

C6_Witness ==
  /\ caught = "JSON.parse" /\ order = Throw /\ outbound = <<>>
  /\ Len(res) = 1 /\ res[1].status = 500

\* C7: once the collector has answered, with any status, and its text was
\* read, the reply is 200 with status "ok", the collector's text, and sent_to
\* "GA4 DEBUG" exactly when the debug flag is "1", in which case it was the
\* debug endpoint that was called; there is never a second outbound call.
C7_ForwardAndReport ==
  /\ Len(outbound) <= 1
  /\ gaRes # Undef => Len(outbound) = 1
  /\ outbound # <<>> =>
       (outbound[1].url = GA4_DEBUG <=> env.GA4_DEBUG_MODE = Str(<<"1">>))
  /\ (gaRes # Undef /\ pc = "done" /\ caught # "gaRes.text") =>
       res = <<[status |-> 200,
                body |-> [status |-> "ok",
                          sent_to |-> IF env.GA4_DEBUG_MODE = Str(<<"1">>)
                                      THEN "GA4 DEBUG" ELSE "GA4",
                          ga_response |-> gaRes.text]]>>

C7_Witness ==
  /\ gaRes # Undef /\ gaRes.status = 500 /\ gaRes.text # ""
  /\ env.GA4_DEBUG_MODE = Str(<<"0">>)
  /\ pc = "done" /\ Len(res) = 1 /\ res[1].status = 200
  /\ res[1].body.sent_to = "GA4" /\ res[1].body.ga_response = gaRes.text

\* the tracking attributes of the order, read from the order itself
SourceAttrs ==
  IF order.t = "object" /\ order.note_attributes.t = "array"
  THEN order.note_attributes.elems ELSE <<>>
Named(i, k) ==
  /\ SourceAttrs[i].t = "object"
  /\ SourceAttrs[i].name.t = "string"
  /\ toLowerCase(SourceAttrs[i].name.s) = KeyChars(k)
IsFirst(i, k) == Named(i, k) /\ \A j \in 1..(i - 1) : ~Named(j, k)
NonEmpty(v) == v.t = "string" /\ v.s # <<>>
\* the first attribute named k has a non-empty value
Found(k) == \E i \in 1..Len(SourceAttrs) : IsFirst(i, k) /\ NonEmpty(SourceAttrs[i].value)
ValueOf(k) == SourceAttrs[CHOOSE i \in 1..Len(SourceAttrs) : IsFirst(i, k)].value
EventBuilt == ga4Event \notin {Undef, Throw}

\* C8: the client id is the client_id attribute, else the _ga_cid attribute,
\* else the customer id as a string, else the order id as a string, and for an
\* order with an id it is a non-empty string.
C8_ClientIdPriority ==
  EventBuilt =>
    LET cid == ga4Event.fields["client_id"]
    IN /\ cid.t = "string" /\ cid.s # <<>>
       /\ Found("client_id") => cid = ValueOf("client_id")
       /\ (~Found("client_id") /\ Found("_ga_cid")) => cid = ValueOf("_ga_cid")
       /\ (~Found("client_id") /\ ~Found("_ga_cid")
             /\ ~IsNullish(CustomerId(order.customer))) =>
            cid = String(order.customer.id)
       /\ (~Found("client_id") /\ ~Found("_ga_cid")
             /\ IsNullish(CustomerId(order.customer))) =>
            cid = String(order.id)

C8_Witness ==
  /\ EventBuilt
  /\ Found("client_id") /\ Found("_ga_cid") /\ ~IsNullish(CustomerId(order.customer))
  /\ ValueOf("client_id") # ValueOf("_ga_cid")
  /\ ga4Event.fields["client_id"] = ValueOf("client_id")

\* C9: value, tax, shipping and every item's price are finite numbers, and
\* every item's quantity is a number that is an integer >= 1, whatever the
\* source fields hold.
C9_NumericFieldsAreNumbers ==
  EventBuilt =>
    /\ \A k \in {"value", "tax", "shipping"} : IsFinite(ga4Event.params[k])
    /\ \A i \in 1..Len(ga4Event.items) :
         /\ IsFinite(ga4Event.items[i]["price"])
         /\ IsFinite(ga4Event.items[i]["quantity"])
         /\ ga4Event.items[i]["quantity"].n >= 1

\* C10: in the serialized event an attribution key is present only if the
\* first attribute of that name, compared without regard to case, has a
\* non-empty value, which the key then carries; otherwise the key is absent,
\* and it is never present with a null value.
C10_AttributionOnlyWhenFound ==
  outbound # <<>> =>
    LET params == outbound[1].body.params
    IN \A i \in 1..Len(AttributionKeys) :
         LET k == AttributionKeys[i]
         IN /\ k \in DOMAIN params =>
                 Found(k) /\ params[k] = ValueOf(k) /\ ~IsNullish(params[k])
            /\ ~Found(k) => k \notin DOMAIN params

C10_Witness ==
  /\ outbound # <<>>
  /\ "utm_source" \in DOMAIN outbound[1].body.params
  /\ \E i \in 1..Len(SourceAttrs) :
       /\ IsFirst(i, "utm_source")
       /\ SourceAttrs[i].name.s # K_utm_source
       /\ outbound[1].body.params["utm_source"] = SourceAttrs[i].value
  /\ "gclid" \notin DOMAIN outbound[1].body.params

=============================================================================
